---- MODULE Spec2Model ----
(***************************************************************************)
(* Model of the xiaomi_aqara_custom Home Assistant component:              *)
(*   - XiaomiDevice / XiaomiGenericSwitch: push handling, voltage parsing, *)
(*     availability tracking (__init__.py 357-465, switch.py 88-171);      *)
(*   - setup and XiaomiMiioGatewayDiscovery.discover_gateways              *)
(*     (__init__.py 133-177, 254-354).                                     *)
(*                                                                         *)
(* Conventions: Python's None is the string "None" for string-valued       *)
(* fields and NoNum (-1) for number-valued fields; True/False/None of      *)
(* _state are the strings "True"/"False"/"None".  Voltages are integer     *)
(* millivolts; a value rounded to two decimals is kept in hundredths, a    *)
(* value rounded to one decimal in tenths.  Device time is in minutes,     *)
(* discovery time in seconds.                                              *)
(***************************************************************************)
EXTENDS Integers, Sequences, FiniteSets, TLC

None == "None"
NoNum == 0 - 1

\* ------------------------------------------------------------------------
\* Bounds of the model
\* ------------------------------------------------------------------------
MaxNow == 302
MaxUpdates == 2
MinReading == 2790
MaxReading == 3310
MaxRetry == 2
MaxElapsed == 9
MaxVolume == 10

\* ------------------------------------------------------------------------
\* Program constants
\* ------------------------------------------------------------------------
TIME_TILL_UNAVAILABLE == 150
max_volt == 3300
min_volt == 2800
SOCKET_TIMEOUT == 5
DEFAULT_PORT == 9898
GATEWAY_MODELS == {"gateway", "gateway.v3", "acpartner.v3"}

\* setup, line 169: the platforms it loads
PLATFORMS == {"binary_sensor", "sensor", "switch", "light", "cover", "lock"}

\* setup, lines 222-249: the services it registers
SERVICES == {"play_ringtone", "stop_ringtone", "add_device", "remove_device",
             "radio_volume"}

VARIABLES
  \* ---- one XiaomiGenericSwitch sub-device ----
  state,                        \* self._state
  is_available,                 \* self._is_available
  remove_unavailability_tracker,\* self._remove_unavailability_tracker: 0 (None) or a timer handle
  device_state_attributes,      \* self._device_state_attributes: [voltage, battery_level]
  in_use,                       \* self._in_use
  load_power,                   \* self._load_power   (hundredths)
  power_consumed,               \* self._power_consumed (hundredths)
  tracked,                      \* async_added_to_hass has run
  \* ---- the framework around it ----
  now,                          \* utcnow(), minutes
  timers,                       \* armed point-in-time listeners: set of [id, at]
  armedAt,                      \* when the tracker was last (re)armed, NoNum before tracking
  lastReport,                   \* when the hub last reported the sub-device (device list or push)
  updates,                      \* state refreshes scheduled and not yet written
  caller,                       \* executor thread inside turn_on/turn_off: "idle", "turn_on", "turn_off"
  lastOp                        \* the handler that ran last and what it reported

devVars == <<state, is_available, remove_unavailability_tracker,
             device_state_attributes, in_use, load_power, power_consumed,
             tracked, now, timers, armedAt, lastReport, updates, caller,
             lastOp>>

VARIABLES
  \* ---- setup and the discovery service ----
  rawConfig,                    \* config[DOMAIN][CONF_GATEWAYS] as the user wrote it
  gateways_config,              \* the validated list: `gateways` of setup, self._gateways_config
  discovery_retry,              \* config[DOMAIN][CONF_DISCOVERY_RETRY]
  pc,                           \* where setup / discover_gateways stands
  k,                            \* the loop variable of setup's retry loop
  gateways,                     \* xiaomi.gateways: ip -> hub
  disabled_gateways,            \* xiaomi.disabled_gateways (a list)
  hubsCreated,                  \* XiaomiMiioGateway objects constructed so far
  sockets,                      \* discovery sockets opened and not closed
  idle,                         \* seconds the current recvfrom has been waiting
  elapsed,                      \* seconds since the round started collecting
  lastResp,                     \* the datagram handled last and what became of it
  hass                          \* what setup has done to Home Assistant and to the listener

discVars == <<rawConfig, gateways_config, discovery_retry, pc, k, gateways,
              disabled_gateways, hubsCreated, sockets, idle, elapsed, lastResp,
              hass>>

VARIABLES
  pending                       \* the push_data call the event loop is inside of, or NoPush

loopVars == <<pending>>

VARIABLES
  radio_state,                  \* XiaomiGatewayRadioSwitch._state
  radio_volume,                 \* XiaomiGatewayRadioSwitch._volume
  radioOp                       \* the radio switch method that ran last and the hub's answer

radioVars == <<radio_state, radio_volume, radioOp>>

vars == <<devVars, discVars, loopVars, radioVars>>

\* ------------------------------------------------------------------------
\* Arithmetic helpers
\* ------------------------------------------------------------------------
Min(a, b) == IF a <= b THEN a ELSE b
Max(a, b) == IF a >= b THEN a ELSE b

RECURSIVE PowMod(_, _)
\* 2^e modulo m
PowMod(e, m) == IF e = 0 THEN 1 % m ELSE (2 * PowMod(e - 1, m)) % m

RECURSIVE Log2Up(_, _)
\* largest j >= 0 with 1000 * 2^j <= v   (v >= 1000)
Log2Up(v, j) == IF 2000 * (2 ^ j) <= v THEN Log2Up(v, j + 1) ELSE j

RECURSIVE Log2Down(_, _)
\* smallest i >= 0 with v * 2^i >= 1000  (0 < v < 1000)
Log2Down(v, i) == IF v * (2 ^ i) >= 1000 THEN i ELSE Log2Down(v, i + 1)

\* Python's round(v / 1000.0, 2) for an integer v >= 0, in hundredths.
\* v / 1000.0 is the double nearest to v/1000; round() then rounds the exact
\* value of that double, so a decimal tie (v % 10 = 5) goes the way the
\* double lies from v/1000, and half-to-even when the double is exact.
\* With 2^52 <= v * 2^E / 1000 < 2^53, the remainder of v * 2^E modulo 1000
\* tells on which side the double lies.
Round2(v) ==
  LET q == v \div 10
      r == v % 10
      E == IF v >= 1000 THEN 52 - Log2Up(v, 0) ELSE 52 + Log2Down(v, 0)
      rem == ((v % 2000) * PowMod(E, 2000)) % 2000
      rem1 == rem % 1000
  IN  IF v = 0 THEN 0
      ELSE IF r < 5 THEN q
      ELSE IF r > 5 THEN q + 1
      ELSE IF rem1 = 0 THEN (IF q % 2 = 0 THEN q ELSE q + 1)
      ELSE IF rem1 < 500 THEN q
      ELSE IF rem1 > 500 THEN q + 1
      ELSE IF rem = 500 THEN q ELSE q + 1

\* round(n / d, 0) for integers n >= 0, d > 0 (half to even)
RoundDiv(n, d) ==
  LET q == n \div d
      r2 == 2 * (n % d)
  IN  IF r2 < d THEN q
      ELSE IF r2 > d THEN q + 1
      ELSE IF q % 2 = 0 THEN q ELSE q + 1

\* ------------------------------------------------------------------------
\* Payloads pushed by the hub.  A key that is absent is None / NoNum.
\*   status           the value under the switch's data key
\*   voltage, battery_voltage   millivolts
\*   inuse            "0" / "1"
\*   load_power, power_consumed, energy_consumed   thousandths
\* ------------------------------------------------------------------------
NoData == [status |-> None, voltage |-> NoNum, battery_voltage |-> NoNum,
           inuse |-> None, load_power |-> NoNum, power_consumed |-> NoNum,
           energy_consumed |-> NoNum]

Payloads ==
  { NoData,
    [NoData EXCEPT !.status = "on"],
    [NoData EXCEPT !.status = "off"],
    [NoData EXCEPT !.status = "toggle"],
    [NoData EXCEPT !.status = "on", !.voltage = 3005],
    [NoData EXCEPT !.battery_voltage = 2700],
    [NoData EXCEPT !.voltage = 3400, !.battery_voltage = 2900],
    [NoData EXCEPT !.inuse = "1", !.load_power = 12345, !.power_consumed = 1000],
    [NoData EXCEPT !.status = "off", !.inuse = "0", !.energy_consumed = 2500] }

\* parse_voltage that clamps the reading from below only
ParseVoltageNoUpperClamp(attrs, data) ==
  IF data.voltage = NoNum /\ data.battery_voltage = NoNum
  THEN [result |-> FALSE, attrs |-> attrs]
  ELSE LET raw == IF data.voltage # NoNum THEN data.voltage
                  ELSE data.battery_voltage
           clamped == Max(raw, min_volt)
           percent == RoundDiv((clamped - min_volt) * 100 * 10,
                               max_volt - min_volt)
       IN  [result |-> TRUE,
            attrs |-> [voltage |-> Round2(raw), battery_level |-> percent]]

\* ------------------------------------------------------------------------
\* XiaomiDevice.parse_voltage: the returned flag and the attributes after
\* ------------------------------------------------------------------------
ParseVoltage(attrs, data) ==
  IF data.voltage = NoNum /\ data.battery_voltage = NoNum
  THEN [result |-> FALSE, attrs |-> attrs]
  ELSE LET raw == IF data.voltage # NoNum THEN data.voltage
                  ELSE data.battery_voltage
           clamped == Max(Min(raw, max_volt), min_volt)
           \* percent = ((voltage - min_volt) / (max_volt - min_volt)) * 100,
           \* round(percent, 1): in tenths
           percent == RoundDiv((clamped - min_volt) * 100 * 10,
                               max_volt - min_volt)
       IN  [result |-> TRUE,
            attrs |-> [voltage |-> Round2(raw), battery_level |-> percent]]

\* ------------------------------------------------------------------------
\* XiaomiGenericSwitch.parse_data: the returned flag and the fields after
\* ------------------------------------------------------------------------
\* parse_data reporting a change whenever it has updated any field
ParseDataAnyField(st, iu, lp, consumed, data) ==
  LET iu1 == IF data.inuse # None THEN (IF data.inuse = "1" THEN 1 ELSE 0)
             ELSE iu
      lp1 == IF data.inuse # None /\ iu1 = 0 THEN 0 ELSE lp
      consumed1 == IF data.power_consumed # NoNum THEN Round2(data.power_consumed)
             ELSE IF data.energy_consumed # NoNum
                  THEN Round2(data.energy_consumed)
             ELSE consumed
      lp2 == IF data.load_power # NoNum THEN Round2(data.load_power) ELSE lp1
      value == data.status
      newState == IF value = "on" THEN "True" ELSE "False"
      changed == value \in {"on", "off"} /\ st # newState
      touched == iu1 # iu \/ lp2 # lp \/ consumed1 # consumed
  IN  [result |-> changed \/ touched,
       state |-> IF changed THEN newState ELSE st,
       in_use |-> iu1, load_power |-> lp2, power_consumed |-> consumed1]

ParseData(st, iu, lp, consumed, data) ==
  LET iu1 == IF data.inuse # None THEN (IF data.inuse = "1" THEN 1 ELSE 0)
             ELSE iu
      lp1 == IF data.inuse # None /\ iu1 = 0 THEN 0 ELSE lp
      consumed1 == IF data.power_consumed # NoNum THEN Round2(data.power_consumed)
             ELSE IF data.energy_consumed # NoNum
                  THEN Round2(data.energy_consumed)
             ELSE consumed
      lp2 == IF data.load_power # NoNum THEN Round2(data.load_power) ELSE lp1
      value == data.status
      newState == IF value = "on" THEN "True" ELSE "False"
      changed == value \in {"on", "off"} /\ st # newState
  IN  [result |-> changed,
       state |-> IF changed THEN newState ELSE st,
       in_use |-> iu1, load_power |-> lp2, power_consumed |-> consumed1]

\* ------------------------------------------------------------------------
\* The record of the last handler
\* ------------------------------------------------------------------------
Op(name, data, wasUnavailable, isData, isVoltage, refreshed, repeat) ==
  [op |-> name, data |-> data, was_unavailable |-> wasUnavailable,
   is_data |-> isData, is_voltage |-> isVoltage, refreshed |-> refreshed,
   repeat |-> repeat]

\* The event loop is not inside push_data
NoPush == [data |-> NoData, state_read |-> None, changed |-> FALSE,
           was_unavailable |-> FALSE, updates |-> 0, active |-> FALSE,
           raced |-> FALSE]

\* The event loop is inside no handler
LoopFree == ~pending.active

\* No radio switch method has run
NoRadioOp == [op |-> "none", resp |-> <<>>]

\* ------------------------------------------------------------------------
\* XiaomiGenericSwitch.__init__ / XiaomiDevice.__init__: the device as
\* constructed from the hub's device list entry `data`
\* ------------------------------------------------------------------------
Constructed(data) ==
    LET pd == ParseData(None, NoNum, NoNum, NoNum, data)
        pv == ParseVoltage([voltage |-> NoNum, battery_level |-> NoNum], data)
    IN  /\ state = pd.state
        /\ is_available = TRUE
        /\ remove_unavailability_tracker = 0
        /\ device_state_attributes = pv.attrs
        /\ in_use = pd.in_use
        /\ load_power = pd.load_power
        /\ power_consumed = pd.power_consumed
        /\ tracked = FALSE
        /\ now = 0
        /\ timers = {}
        /\ armedAt = NoNum
        /\ lastReport = 0
        /\ updates = 0
        /\ caller = "idle"
        /\ lastOp = Op("init", data, FALSE, pd.result, pv.result, FALSE, FALSE)

DeviceInit == \E data \in Payloads : Constructed(data)

\* ------------------------------------------------------------------------
\* homeassistant.helpers.event.async_track_point_in_utc_time: arm a
\* listener at `at`; the handle returned removes it.
\* ------------------------------------------------------------------------
FreshTimer(ts) == CHOOSE i \in 1..(Cardinality(ts) + 1) :
                    \A t \in ts : t.id # i

\* _async_track_unavailable that leaves the previous listener armed
TrackUnavailableNoCancel ==
  LET id == FreshTimer(timers)
  IN  [timers |-> timers \cup
                    {[id |-> id, at |-> now + TIME_TILL_UNAVAILABLE]},
       tracker |-> id,
       is_available |-> TRUE,
       result |-> ~is_available]

\* _async_track_unavailable that re-arms without making the sub-device
\* available again
TrackUnavailableNoFlip ==
  LET cancelled == IF remove_unavailability_tracker # 0
                   THEN {t \in timers : t.id # remove_unavailability_tracker}
                   ELSE timers
      id == FreshTimer(cancelled)
  IN  [timers |-> cancelled \cup
                    {[id |-> id, at |-> now + TIME_TILL_UNAVAILABLE]},
       tracker |-> id,
       is_available |-> is_available,
       result |-> FALSE]

\* XiaomiDevice._async_track_unavailable: timers, tracker, availability
\* after, and the returned flag
TrackUnavailable ==
  LET cancelled == IF remove_unavailability_tracker # 0
                   THEN {t \in timers : t.id # remove_unavailability_tracker}
                   ELSE timers
      id == FreshTimer(cancelled)
  IN  [timers |-> cancelled \cup
                    {[id |-> id, at |-> now + TIME_TILL_UNAVAILABLE]},
       tracker |-> id,
       is_available |-> TRUE,
       result |-> ~is_available]

\* XiaomiDevice.async_added_to_hass
AsyncAddedToHass ==
  /\ ~tracked
  /\ now + TIME_TILL_UNAVAILABLE <= MaxNow
  /\ LET tr == TrackUnavailable
     IN  /\ timers' = tr.timers
         /\ remove_unavailability_tracker' = tr.tracker
         /\ is_available' = tr.is_available
         /\ lastOp' = Op("added", NoData, tr.result, FALSE, FALSE, FALSE, FALSE)
  /\ tracked' = TRUE
  /\ armedAt' = now
  /\ UNCHANGED <<discVars, loopVars, radioVars>>
  /\ UNCHANGED <<state, device_state_attributes, in_use, load_power,
                 power_consumed, now, lastReport, updates, caller>>

\* XiaomiDevice.push_data, run by the event loop for a push of `data`
PushData(data) ==
  /\ tracked
  /\ updates < MaxUpdates
  /\ now + TIME_TILL_UNAVAILABLE <= MaxNow
  /\ LET tr == TrackUnavailable
         pd == ParseData(state, in_use, load_power, power_consumed, data)
         pv == ParseVoltage(device_state_attributes, data)
         refresh == pd.result \/ pv.result \/ tr.result
     IN  /\ timers' = tr.timers
         /\ remove_unavailability_tracker' = tr.tracker
         /\ is_available' = tr.is_available
         /\ state' = pd.state
         /\ in_use' = pd.in_use
         /\ load_power' = pd.load_power
         /\ power_consumed' = pd.power_consumed
         /\ device_state_attributes' = pv.attrs
         /\ updates' = IF refresh THEN updates + 1 ELSE updates
         /\ lastOp' = Op("push", data, tr.result, pd.result, pv.result, refresh,
                         lastOp.op = "push" /\ lastOp.data = data)
  /\ armedAt' = now
  /\ lastReport' = now
  /\ UNCHANGED <<discVars, loopVars, radioVars>>
  /\ UNCHANGED <<tracked, now, caller>>

\* XiaomiDevice._async_set_unavailable, called by the framework when an
\* armed listener is due; the listener is one-shot.
AsyncSetUnavailable ==
  /\ updates < MaxUpdates
  /\ \E t \in timers :
       /\ t.at <= now
       /\ timers' = timers \ {t}
  /\ remove_unavailability_tracker' = 0
  /\ is_available' = FALSE
  /\ updates' = updates + 1
  /\ lastOp' = Op("timeout", NoData, FALSE, FALSE, FALSE, TRUE, FALSE)
  /\ UNCHANGED <<discVars, loopVars, radioVars>>
  /\ UNCHANGED <<state, device_state_attributes, in_use, load_power,
                 power_consumed, tracked, now, armedAt, lastReport, caller>>

\* XiaomiGenericSwitch.turn_on / turn_off run in an executor thread: the
\* call into write_to_hub blocks until the hub answers.
TurnCall(which) ==
  /\ caller = "idle"
  /\ caller' = which
  /\ UNCHANGED <<discVars, loopVars, radioVars>>
  /\ UNCHANGED <<state, is_available, remove_unavailability_tracker,
                 device_state_attributes, in_use, load_power, power_consumed,
                 tracked, now, timers, armedAt, lastReport, updates, lastOp>>

\* turn_on / turn_off without the test of what write_to_hub returned
TurnReturnUnchecked(ack) ==
  /\ caller \in {"turn_on", "turn_off"}
  /\ updates < MaxUpdates
  /\ caller' = "idle"
  /\ state' = IF caller = "turn_on" THEN "True" ELSE "False"
  /\ updates' = updates + 1
  /\ lastOp' = Op(caller, NoData, FALSE, FALSE, FALSE, ack, FALSE)
  /\ UNCHANGED <<discVars, loopVars, radioVars>>
  /\ UNCHANGED <<is_available, remove_unavailability_tracker,
                 device_state_attributes, in_use, load_power, power_consumed,
                 tracked, now, timers, armedAt, lastReport>>

\* write_to_hub returned `ack`
TurnReturn(ack) ==
  /\ caller \in {"turn_on", "turn_off"}
  /\ updates < MaxUpdates
  /\ caller' = "idle"
  /\ state' = IF ack THEN (IF caller = "turn_on" THEN "True" ELSE "False")
              ELSE state
  /\ updates' = IF ack THEN updates + 1 ELSE updates
  /\ lastOp' = Op(caller, NoData, FALSE, FALSE, FALSE, ack, FALSE)
  /\ UNCHANGED <<discVars, loopVars, radioVars>>
  /\ UNCHANGED <<is_available, remove_unavailability_tracker,
                 device_state_attributes, in_use, load_power, power_consumed,
                 tracked, now, timers, armedAt, lastReport>>

\* The framework writes one scheduled state refresh
UpdateHaState ==
  /\ updates > 0
  /\ updates' = updates - 1
  /\ UNCHANGED <<discVars, loopVars, radioVars>>
  /\ UNCHANGED <<state, is_available, remove_unavailability_tracker,
                 device_state_attributes, in_use, load_power, power_consumed,
                 tracked, now, timers, armedAt, lastReport, caller,
                 lastOp>>

\* The instants at which the environment acts: around every multiple of the
\* unavailability period.
Instants == {t \in 0..MaxNow :
               t % TIME_TILL_UNAVAILABLE \in {0, 1, TIME_TILL_UNAVAILABLE - 1}}

\* Time passes.  A due listener is called before time moves on.
Tick ==
  /\ \E t \in Instants :
       /\ t > now
       /\ \A tm \in timers : tm.at >= t
       /\ now' = t
  /\ UNCHANGED <<discVars, loopVars, radioVars>>
  /\ UNCHANGED <<state, is_available, remove_unavailability_tracker,
                 device_state_attributes, in_use, load_power, power_consumed,
                 tracked, timers, armedAt, lastReport, updates, caller,
                 lastOp>>

\* A direct call of parse_voltage(data)
ParseVoltageCall(data) ==
  /\ LET pv == ParseVoltage(device_state_attributes, data)
     IN  /\ device_state_attributes' = pv.attrs
         /\ lastOp' = Op("parse_voltage", data, FALSE, FALSE, pv.result,
                         FALSE, FALSE)
  /\ UNCHANGED <<discVars, loopVars, radioVars>>
  /\ UNCHANGED <<state, is_available, remove_unavailability_tracker, in_use,
                 load_power, power_consumed, tracked, now, timers, armedAt,
                 lastReport, updates, caller>>

\* The integer millivolt readings, under either key
Readings == MinReading..MaxReading

VoltageData ==
  {[NoData EXCEPT !.voltage = v] : v \in Readings} \cup
  {[NoData EXCEPT !.battery_voltage = v] : v \in Readings}

\* The reading parse_voltage takes from a payload
Reading(data) == IF data.voltage # NoNum THEN data.voltage
                 ELSE data.battery_voltage

VoltageInit == \E data \in VoltageData : Constructed(data)

VoltageNext == \E data \in VoltageData : ParseVoltageCall(data)

DeviceNext ==
  \/ AsyncAddedToHass
  \/ \E data \in Payloads : PushData(data)
  \/ AsyncSetUnavailable
  \/ \E which \in {"turn_on", "turn_off"} : TurnCall(which)
  \/ \E ack \in BOOLEAN : TurnReturn(ack)
  \/ UpdateHaState
  \/ Tick

\* ------------------------------------------------------------------------
\* push_data step by step.  The handlers marked @callback run one at a time
\* in the event loop; turn_on and turn_off run in an executor thread and
\* can assign self._state between any two steps of a handler.  parse_data
\* reads self._state once (line 163) and assigns it once (line 165).
\* ------------------------------------------------------------------------
\* push_data up to the comparison self._state == state of parse_data
PushBegin(data) ==
  /\ tracked
  /\ LoopFree
  /\ updates < MaxUpdates
  /\ now + TIME_TILL_UNAVAILABLE <= MaxNow
  /\ LET tr == TrackUnavailable
         pd == ParseData(state, in_use, load_power, power_consumed, data)
     IN  /\ timers' = tr.timers
         /\ remove_unavailability_tracker' = tr.tracker
         /\ is_available' = tr.is_available
         /\ in_use' = pd.in_use
         /\ load_power' = pd.load_power
         /\ power_consumed' = pd.power_consumed
         /\ pending' = [data |-> data, state_read |-> state,
                        changed |-> pd.result, was_unavailable |-> tr.result,
                        updates |-> updates, active |-> TRUE,
                        raced |-> FALSE]
  /\ armedAt' = now
  /\ lastReport' = now
  /\ UNCHANGED <<discVars, radioVars>>
  /\ UNCHANGED <<state, device_state_attributes, tracked, now, updates,
                 caller, lastOp>>

\* the rest of push_data assigning self._state whether or not it changed
PushEndWriteBack ==
  /\ pending.active
  /\ LET pd == ParseData(pending.state_read, in_use, load_power,
                         power_consumed, pending.data)
         pv == ParseVoltage(device_state_attributes, pending.data)
         refresh == pending.changed \/ pv.result \/ pending.was_unavailable
     IN  /\ state' = pd.state
         /\ device_state_attributes' = pv.attrs
         /\ updates' = IF refresh THEN updates + 1 ELSE updates
         /\ lastOp' = Op("push", pending.data, pending.was_unavailable,
                         pending.changed, pv.result, refresh,
                         lastOp.op = "push" /\ lastOp.data = pending.data)
  /\ pending' = [NoPush EXCEPT !.raced = updates > pending.updates]
  /\ UNCHANGED <<discVars, radioVars>>
  /\ UNCHANGED <<is_available, remove_unavailability_tracker, in_use,
                 load_power, power_consumed, tracked, now, timers, armedAt,
                 lastReport, caller>>

\* the rest of push_data: the assignment of parse_data (line 165) when the
\* comparison found a change, parse_voltage and the refresh
PushEnd ==
  /\ pending.active
  /\ LET pd == ParseData(pending.state_read, in_use, load_power,
                         power_consumed, pending.data)
         pv == ParseVoltage(device_state_attributes, pending.data)
         refresh == pending.changed \/ pv.result \/ pending.was_unavailable
     IN  /\ state' = IF pending.changed THEN pd.state ELSE state
         /\ device_state_attributes' = pv.attrs
         /\ updates' = IF refresh THEN updates + 1 ELSE updates
         /\ lastOp' = Op("push", pending.data, pending.was_unavailable,
                         pending.changed, pv.result, refresh,
                         lastOp.op = "push" /\ lastOp.data = pending.data)
  /\ pending' = [NoPush EXCEPT !.raced = updates > pending.updates]
  /\ UNCHANGED <<discVars, radioVars>>
  /\ UNCHANGED <<is_available, remove_unavailability_tracker, in_use,
                 load_power, power_consumed, tracked, now, timers, armedAt,
                 lastReport, caller>>

RaceInit == \E data \in Payloads : Constructed(data)

RaceNext ==
  \/ LoopFree /\ AsyncAddedToHass
  \/ \E data \in Payloads : PushBegin(data)
  \/ PushEnd
  \/ LoopFree /\ AsyncSetUnavailable
  \/ \E which \in {"turn_on", "turn_off"} : TurnCall(which)
  \/ \E ack \in BOOLEAN : TurnReturn(ack)
  \/ LoopFree /\ UpdateHaState
  \/ LoopFree /\ Tick

\* ========================================================================
\* setup and XiaomiMiioGatewayDiscovery
\* ========================================================================
Ips == {"ip1", "ip2"}
Macs == {"s1", "s2"}

\* socket.gethostbyname: "fail" stands for OSError
Resolve(host) == IF host = "h1" THEN "ip1"
                 ELSE IF host = "h2" THEN "ip2"
                 ELSE "fail"

\* The gateway entries a user writes: the entry at position i carries key i
\* and token i.
RawEntries(i) ==
  [host : {None, "h1", "h2", "bad"}, mac : {None} \cup Macs,
   disable : BOOLEAN,
   key : {IF i = 1 THEN "k1" ELSE "k2"},
   miio_token : {IF i = 1 THEN "t1" ELSE "t2"}]

RawConfigs ==
  {<<>>} \cup {<<e>> : e \in RawEntries(1)}
         \cup {<<e1, e2>> : e1 \in RawEntries(1), e2 \in RawEntries(2)}

\* the schema without the two-or-more alternative's required mac
SchemaAcceptsAnyList(raw) == Len(raw) >= 0

\* GATEWAY_CONFIG_MAC_OPTIONAL / GATEWAY_CONFIG_MAC_REQUIRED under vol.Any
\* of CONFIG_SCHEMA: at most one entry, or at least two that all have a mac
SchemaAccepts(raw) ==
  \/ Len(raw) <= 1
  \/ /\ Len(raw) >= 2
     /\ \A i \in 1..Len(raw) : raw[i].mac # None

\* _fix_conf_defaults (with the port default of GATEWAY_CONFIG)
FixConfDefaults(e) ==
  [host |-> e.host,
   port |-> IF e.host = None THEN NoNum ELSE DEFAULT_PORT,
   sid |-> e.mac,
   key |-> e.key,
   disable |-> e.disable,
   miio_token |-> e.miio_token]

\* XiaomiMiioGateway.__init__: the hub object
NewHub(id, ip, port, sid, key, token) ==
  [id |-> id, ip |-> ip, port |-> port, sid |-> sid, key |-> key,
   miio_token |-> token, miio |-> token # None]

\* d[ip] = hub
Put(d, ip, hub) == [x \in (DOMAIN d) \cup {ip} |-> IF x = ip THEN hub ELSE d[x]]

NoResp == [ip |-> None, json |-> FALSE, cmd |-> None, model |-> None,
           sid |-> None, port |-> NoNum, outcome |-> None, hub |-> 0]

\* Home Assistant before setup has done anything: calls of xiaomi.listen()
\* and xiaomi.stop_listen() so far, platforms loaded, services registered,
\* and whether stop_xiaomi waits for EVENT_HOMEASSISTANT_STOP
NoHass == [listen |-> 0, stop_listen |-> 0, platforms |-> {},
           services |-> {}, stop_listener |-> FALSE]

\* Home Assistant after a setup that has returned True
SetUpHass == [listen |-> 1, stop_listen |-> 0, platforms |-> PLATFORMS,
              services |-> SERVICES, stop_listener |-> TRUE]

\* The datagrams that can arrive on the discovery socket.  A field that is
\* missing from the JSON object is None / NoNum.
Bodies ==
  { [json |-> FALSE, cmd |-> None, model |-> None, sid |-> None, port |-> NoNum],
    [json |-> TRUE, cmd |-> "iam", model |-> "gateway", sid |-> "s1", port |-> DEFAULT_PORT],
    [json |-> TRUE, cmd |-> "iam", model |-> "gateway.v3", sid |-> "s2", port |-> DEFAULT_PORT],
    [json |-> TRUE, cmd |-> "heartbeat", model |-> "gateway", sid |-> "s1", port |-> DEFAULT_PORT],
    [json |-> TRUE, cmd |-> "iam", model |-> "plug", sid |-> "s1", port |-> DEFAULT_PORT],
    [json |-> TRUE, cmd |-> None, model |-> "gateway", sid |-> "s1", port |-> DEFAULT_PORT],
    [json |-> TRUE, cmd |-> "iam", model |-> "gateway", sid |-> None, port |-> DEFAULT_PORT],
    [json |-> TRUE, cmd |-> "iam", model |-> "gateway", sid |-> "s1", port |-> NoNum] }

\* The state before setup is called
SetupInit ==
  /\ rawConfig \in RawConfigs
  /\ hass = NoHass
  /\ discovery_retry \in 1..MaxRetry
  /\ gateways_config = <<>>
  /\ pc = "config"
  /\ k = 0
  /\ gateways = << >>
  /\ disabled_gateways = << >>
  /\ hubsCreated = 0
  /\ sockets = 0
  /\ idle = 0
  /\ elapsed = 0
  /\ lastResp = NoResp

\* CONFIG_SCHEMA applied by the framework before setup is called
ValidateConfig ==
  /\ pc = "config"
  /\ IF SchemaAccepts(rawConfig)
     THEN /\ gateways_config' = [i \in 1..Len(rawConfig) |->
                                   FixConfDefaults(rawConfig[i])]
          /\ pc' = "discover"
     ELSE /\ gateways_config' = gateways_config
          /\ pc' = "invalid"
  /\ UNCHANGED <<rawConfig, discovery_retry, k, gateways, disabled_gateways,
                 hubsCreated, sockets, idle, elapsed, lastResp>>
  /\ UNCHANGED <<devVars, loopVars, radioVars, hass>>

\* discover_gateways, lines 261-264: the socket of the round
DiscoverOpen ==
  /\ pc = "discover"
  /\ sockets' = sockets + 1
  /\ pc' = "static"
  /\ UNCHANGED <<rawConfig, gateways_config, discovery_retry, k, gateways,
                 disabled_gateways, hubsCreated, idle, elapsed, lastResp>>
  /\ UNCHANGED <<devVars, loopVars, radioVars, hass>>

RECURSIVE StaticFromBreak(_, _)
\* the loop over the static entries leaving after the first hub it creates
StaticFromBreak(i, acc) ==
  IF i > Len(gateways_config) THEN acc
  ELSE LET gateway == gateways_config[i]
           ip_address == Resolve(gateway.host)
       IN  IF ~(gateway.host # None /\ gateway.port # NoNum
                /\ gateway.sid # None)
           THEN StaticFromBreak(i + 1, acc)
           ELSE IF ip_address = "fail"
           THEN StaticFromBreak(i + 1, acc)
           ELSE IF gateway.disable
           THEN StaticFromBreak(i + 1,
                  [acc EXCEPT !.disabled = Append(@, ip_address)])
           ELSE [acc EXCEPT
                     !.gateways = Put(@, ip_address,
                        NewHub(acc.created + 1, ip_address, gateway.port,
                               gateway.sid, gateway.key, gateway.miio_token)),
                     !.created = @ + 1]

RECURSIVE StaticFromDnsFatal(_, _)
\* the loop over the static entries given up at the first host that does
\* not resolve
StaticFromDnsFatal(i, acc) ==
  IF i > Len(gateways_config) THEN acc
  ELSE LET gateway == gateways_config[i]
           ip_address == Resolve(gateway.host)
       IN  IF ~(gateway.host # None /\ gateway.port # NoNum
                /\ gateway.sid # None)
           THEN StaticFromDnsFatal(i + 1, acc)
           ELSE IF ip_address = "fail"
           THEN acc
           ELSE IF gateway.disable
           THEN StaticFromDnsFatal(i + 1,
                  [acc EXCEPT !.disabled = Append(@, ip_address)])
           ELSE StaticFromDnsFatal(i + 1,
                  [acc EXCEPT
                     !.gateways = Put(@, ip_address,
                        NewHub(acc.created + 1, ip_address, gateway.port,
                               gateway.sid, gateway.key, gateway.miio_token)),
                     !.created = @ + 1])

RECURSIVE StaticFrom(_, _)
\* discover_gateways, lines 266-293: the loop over the static entries from
\* entry i on; acc = [gateways, disabled, created]
StaticFrom(i, acc) ==
  IF i > Len(gateways_config) THEN acc
  ELSE LET gateway == gateways_config[i]
           ip_address == Resolve(gateway.host)
       IN  IF ~(gateway.host # None /\ gateway.port # NoNum
                /\ gateway.sid # None)
           THEN StaticFrom(i + 1, acc)
           ELSE IF ip_address = "fail"
           THEN StaticFrom(i + 1, acc)
           ELSE IF gateway.disable
           THEN StaticFrom(i + 1,
                  [acc EXCEPT !.disabled = Append(@, ip_address)])
           ELSE StaticFrom(i + 1,
                  [acc EXCEPT
                     !.gateways = Put(@, ip_address,
                        NewHub(acc.created + 1, ip_address, gateway.port,
                               gateway.sid, gateway.key, gateway.miio_token)),
                     !.created = @ + 1])

DiscoverStatic ==
  /\ pc = "static"
  /\ LET r == StaticFrom(1, [gateways |-> gateways,
                             disabled |-> disabled_gateways,
                             created |-> hubsCreated])
     IN  /\ gateways' = r.gateways
         /\ disabled_gateways' = r.disabled
         /\ hubsCreated' = r.created
  /\ pc' = "whois"
  /\ UNCHANGED <<rawConfig, gateways_config, discovery_retry, k, sockets,
                 idle, elapsed, lastResp>>
  /\ UNCHANGED <<devVars, loopVars, radioVars, hass>>

\* discover_gateways, lines 296-297: sendto either sends or raises OSError,
\* which no handler of the round catches
DiscoverWhois(sent) ==
  /\ pc = "whois"
  /\ pc' = IF sent THEN "recv" ELSE "crashed"
  /\ idle' = 0
  /\ elapsed' = 0
  /\ UNCHANGED <<rawConfig, gateways_config, discovery_retry, k, gateways,
                 disabled_gateways, hubsCreated, sockets, lastResp>>
  /\ UNCHANGED <<devVars, loopVars, radioVars, hass>>

InSeq(x, sq) == \E i \in 1..Len(sq) : sq[i] = x

RECURSIVE MatchFrom(_, _, _)
\* discover_gateways, lines 316-323: the loop over the static entries for a
\* response with serial rsid; acc = [disabled, gateway_key]
MatchFrom(i, rsid, acc) ==
  IF i > Len(gateways_config) THEN acc
  ELSE LET gateway == gateways_config[i]
           sid == gateway.sid
           acc1 == IF sid = None \/ sid = rsid
                   THEN [acc EXCEPT !.gateway_key = gateway.key] ELSE acc
           acc2 == IF sid # None /\ sid = rsid /\ gateway.disable
                   THEN [acc1 EXCEPT !.disabled = TRUE] ELSE acc1
       IN  MatchFrom(i + 1, rsid, acc2)

\* miio_token=gateway.get("miio_token") of line 336: `gateway` is the loop
\* variable left by the loop of line 318, unbound when the list is empty
TokenArgument ==
  IF Len(gateways_config) = 0 THEN "unbound"
  ELSE gateways_config[Len(gateways_config)].miio_token

\* the receive loop without the test of the model against GATEWAY_MODELS
DiscoverRecvNoModelCheck(ip_add, body) ==
  /\ pc = "recv"
  /\ idle < SOCKET_TIMEOUT
  /\ idle' = 0
  /\ LET resp == [ip |-> ip_add, json |-> body.json, cmd |-> body.cmd,
                  model |-> body.model, sid |-> body.sid, port |-> body.port,
                  outcome |-> None, hub |-> 0]
         m == MatchFrom(1, body.sid, [disabled |-> FALSE, gateway_key |-> None])
         Skip(why) ==
           /\ lastResp' = [resp EXCEPT !.outcome = why]
           /\ UNCHANGED <<pc, gateways, disabled_gateways, hubsCreated>>
         Raise ==
           /\ lastResp' = [resp EXCEPT !.outcome = "error"]
           /\ pc' = "crashed"
           /\ UNCHANGED <<gateways, disabled_gateways, hubsCreated>>
     IN  IF ip_add \in DOMAIN gateways THEN Skip("duplicate")
         ELSE IF InSeq(ip_add, disabled_gateways) THEN Skip("duplicate")
         ELSE IF ~body.json THEN Raise
         ELSE IF body.cmd = None THEN Raise
         ELSE IF body.cmd # "iam" THEN Skip("rejected")
         ELSE IF body.model = None THEN Raise
         ELSE IF body.sid = None THEN Raise
         ELSE IF m.disabled
         THEN /\ disabled_gateways' = Append(disabled_gateways, ip_add)
              /\ lastResp' = [resp EXCEPT !.outcome = "disabled"]
              /\ UNCHANGED <<pc, gateways, hubsCreated>>
         ELSE IF body.port = NoNum THEN Raise
         ELSE IF TokenArgument = "unbound" THEN Raise
         ELSE /\ gateways' = Put(gateways, ip_add,
                               NewHub(hubsCreated + 1, ip_add, body.port,
                                      body.sid, m.gateway_key, TokenArgument))
              /\ hubsCreated' = hubsCreated + 1
              /\ lastResp' = [resp EXCEPT !.outcome = "created",
                                          !.hub = hubsCreated + 1]
              /\ UNCHANGED <<pc, disabled_gateways>>
  /\ UNCHANGED <<rawConfig, gateways_config, discovery_retry, k, sockets,
                 elapsed>>
  /\ UNCHANGED <<devVars, loopVars, radioVars, hass>>

\* discover_gateways, lines 300-337: one datagram from ip_add
DiscoverRecv(ip_add, body) ==
  /\ pc = "recv"
  /\ idle < SOCKET_TIMEOUT
  /\ idle' = 0
  /\ LET resp == [ip |-> ip_add, json |-> body.json, cmd |-> body.cmd,
                  model |-> body.model, sid |-> body.sid, port |-> body.port,
                  outcome |-> None, hub |-> 0]
         m == MatchFrom(1, body.sid, [disabled |-> FALSE, gateway_key |-> None])
         Skip(why) ==
           /\ lastResp' = [resp EXCEPT !.outcome = why]
           /\ UNCHANGED <<pc, gateways, disabled_gateways, hubsCreated>>
         Raise ==
           /\ lastResp' = [resp EXCEPT !.outcome = "error"]
           /\ pc' = "crashed"
           /\ UNCHANGED <<gateways, disabled_gateways, hubsCreated>>
     IN  IF ip_add \in DOMAIN gateways THEN Skip("duplicate")
         ELSE IF InSeq(ip_add, disabled_gateways) THEN Skip("duplicate")
         ELSE IF ~body.json THEN Raise
         ELSE IF body.cmd = None THEN Raise
         ELSE IF body.cmd # "iam" THEN Skip("rejected")
         ELSE IF body.model = None THEN Raise
         ELSE IF body.model \notin GATEWAY_MODELS THEN Skip("rejected")
         ELSE IF body.sid = None THEN Raise
         ELSE IF m.disabled
         THEN /\ disabled_gateways' = Append(disabled_gateways, ip_add)
              /\ lastResp' = [resp EXCEPT !.outcome = "disabled"]
              /\ UNCHANGED <<pc, gateways, hubsCreated>>
         ELSE IF body.port = NoNum THEN Raise
         ELSE IF TokenArgument = "unbound" THEN Raise
         ELSE /\ gateways' = Put(gateways, ip_add,
                               NewHub(hubsCreated + 1, ip_add, body.port,
                                      body.sid, m.gateway_key, TokenArgument))
              /\ hubsCreated' = hubsCreated + 1
              /\ lastResp' = [resp EXCEPT !.outcome = "created",
                                          !.hub = hubsCreated + 1]
              /\ UNCHANGED <<pc, disabled_gateways>>
  /\ UNCHANGED <<rawConfig, gateways_config, discovery_retry, k, sockets,
                 elapsed>>
  /\ UNCHANGED <<devVars, loopVars, radioVars, hass>>

\* Time passes while recvfrom waits: up to one second before the socket
\* timeout, or up to the timeout itself
DiscoverTick ==
  /\ pc = "recv"
  /\ \E w \in {SOCKET_TIMEOUT - 1, SOCKET_TIMEOUT} :
       /\ w > idle
       /\ elapsed + (w - idle) <= MaxElapsed
       /\ idle' = w
       /\ elapsed' = elapsed + (w - idle)
  /\ UNCHANGED <<rawConfig, gateways_config, discovery_retry, pc, k, gateways,
                 disabled_gateways, hubsCreated, sockets, lastResp>>
  /\ UNCHANGED <<devVars, loopVars, radioVars, hass>>

\* discover_gateways, lines 339-341: recvfrom raises socket.timeout
DiscoverTimeout ==
  /\ pc = "recv"
  /\ idle = SOCKET_TIMEOUT
  /\ sockets' = sockets - 1
  /\ pc' = "round_end"
  /\ UNCHANGED <<rawConfig, gateways_config, discovery_retry, k, gateways,
                 disabled_gateways, hubsCreated, idle, elapsed, lastResp>>
  /\ UNCHANGED <<devVars, loopVars, radioVars, hass>>

Size(d) == Cardinality(DOMAIN d)

\* the retry loop without its early exit
SetupRetryNoBreak ==
  /\ pc = "round_end"
  /\ IF k + 1 >= discovery_retry
     THEN /\ pc' = "discovered"
          /\ k' = k
     ELSE /\ pc' = "discover"
          /\ k' = k + 1
  /\ UNCHANGED <<rawConfig, gateways_config, discovery_retry, gateways,
                 disabled_gateways, hubsCreated, sockets, idle, elapsed,
                 lastResp>>
  /\ UNCHANGED <<devVars, loopVars, radioVars, hass>>

\* setup, lines 156-160: the end of one pass of the retry loop
SetupRetry ==
  /\ pc = "round_end"
  /\ IF Size(gateways) >= Len(gateways_config) \/ k + 1 >= discovery_retry
     THEN /\ pc' = "discovered"
          /\ k' = k
     ELSE /\ pc' = "discover"
          /\ k' = k + 1
  /\ UNCHANGED <<rawConfig, gateways_config, discovery_retry, gateways,
                 disabled_gateways, hubsCreated, sockets, idle, elapsed,
                 lastResp>>
  /\ UNCHANGED <<devVars, loopVars, radioVars, hass>>

\* setup going on to listen() without the test of xiaomi.gateways
SetupListenUnchecked ==
  /\ pc = "discovered"
  /\ pc' = "listening"
  /\ hass' = [hass EXCEPT !.listen = @ + 1]
  /\ UNCHANGED <<rawConfig, gateways_config, discovery_retry, k, gateways,
                 disabled_gateways, hubsCreated, sockets, idle, elapsed,
                 lastResp>>
  /\ UNCHANGED <<devVars, loopVars, radioVars>>

\* setup, lines 162-166: no gateway, or listen()
SetupListen ==
  /\ pc = "discovered"
  /\ IF Size(gateways) = 0
     THEN /\ pc' = "no_gateway"
          /\ hass' = hass
     ELSE /\ pc' = "listening"
          /\ hass' = [hass EXCEPT !.listen = @ + 1]
  /\ UNCHANGED <<rawConfig, gateways_config, discovery_retry, k, gateways,
                 disabled_gateways, hubsCreated, sockets, idle, elapsed,
                 lastResp>>
  /\ UNCHANGED <<devVars, loopVars, radioVars>>

\* setup, lines 169-251: platforms loaded, stop listener and services
\* registered
SetupFinish ==
  /\ pc = "listening"
  /\ pc' = "running"
  /\ hass' = [hass EXCEPT !.platforms = @ \cup PLATFORMS,
                          !.stop_listener = TRUE,
                          !.services = @ \cup SERVICES]
  /\ UNCHANGED <<rawConfig, gateways_config, discovery_retry, k, gateways,
                 disabled_gateways, hubsCreated, sockets, idle, elapsed,
                 lastResp>>
  /\ UNCHANGED <<devVars, loopVars, radioVars>>

\* stop_xiaomi, lines 172-175, on EVENT_HOMEASSISTANT_STOP
StopXiaomi ==
  /\ pc = "running"
  /\ hass.stop_listener
  /\ pc' = "stopped"
  /\ hass' = [hass EXCEPT !.stop_listen = @ + 1, !.stop_listener = FALSE]
  /\ UNCHANGED <<rawConfig, gateways_config, discovery_retry, k, gateways,
                 disabled_gateways, hubsCreated, sockets, idle, elapsed,
                 lastResp>>
  /\ UNCHANGED <<devVars, loopVars, radioVars>>

SetupNext ==
  \/ ValidateConfig
  \/ DiscoverOpen
  \/ DiscoverStatic
  \/ \E sent \in BOOLEAN : DiscoverWhois(sent)
  \/ \E ip_add \in Ips : \E body \in Bodies : DiscoverRecv(ip_add, body)
  \/ DiscoverTick
  \/ DiscoverTimeout
  \/ SetupRetry
  \/ SetupListen
  \/ SetupFinish
  \/ StopXiaomi

\* ========================================================================
\* The gateway radio switch (switch.py)
\* ========================================================================
\* What the hub can answer to 'play_fm': a JSON array
RadioReplies == { <<"ok">>, <<"error">>, << >>, <<"busy", "retry">> }

\* What the hub can answer to 'get_prop_fm': current_status and
\* current_volume, either of them possibly missing
RadioStatuses == {"run", "pause", None}
RadioVolumes == {NoNum} \cup (0..MaxVolume)

\* x in reply
Contains(reply, x) == \E i \in 1..Len(reply) : reply[i] = x

RadioOp(name, reply) == [op |-> name, resp |-> reply]

\* XiaomiGatewayGenericSwitch.__init__ and XiaomiGatewayRadioSwitch.__init__
RadioInit ==
  /\ radio_state = None
  /\ radio_volume = NoNum
  /\ radioOp = RadioOp("init", << >>)

\* turn_on assigning the state whatever the hub answered
RadioTurnOnUnchecked(reply) ==
  /\ radio_state' = "True"
  /\ radioOp' = RadioOp("turn_on", reply)
  /\ UNCHANGED <<radio_volume, devVars, discVars, loopVars>>

\* XiaomiGatewayRadioSwitch.turn_on; reply is what raw_command returned
RadioTurnOn(reply) ==
  /\ radio_state' = IF Contains(reply, "ok") THEN "True" ELSE radio_state
  /\ radioOp' = RadioOp("turn_on", reply)
  /\ UNCHANGED <<radio_volume, devVars, discVars, loopVars>>

\* XiaomiGatewayRadioSwitch.turn_off
RadioTurnOff(reply) ==
  /\ radio_state' = IF Contains(reply, "ok") THEN "False" ELSE radio_state
  /\ radioOp' = RadioOp("turn_off", reply)
  /\ UNCHANGED <<radio_volume, devVars, discVars, loopVars>>

\* XiaomiGatewayRadioSwitch.update
RadioUpdate(current_status, current_volume) ==
  /\ radio_volume' = current_volume
  /\ radio_state' = IF current_status = "run" THEN "True" ELSE "False"
  /\ radioOp' = RadioOp("update", <<current_status>>)
  /\ UNCHANGED <<devVars, discVars, loopVars>>

RadioNext ==
  \/ \E reply \in RadioReplies : RadioTurnOn(reply)
  \/ \E reply \in RadioReplies : RadioTurnOff(reply)
  \/ \E current_status \in RadioStatuses :
       \E current_volume \in RadioVolumes :
         RadioUpdate(current_status, current_volume)

\* ========================================================================
\* Specifications
\* ========================================================================
\* No discovery is going on
DiscoveryIdle ==
  /\ rawConfig = << >>
  /\ hass = SetUpHass
  /\ gateways_config = << >>
  /\ discovery_retry = 1
  /\ pc = "running"
  /\ k = 0
  /\ gateways = << >>
  /\ disabled_gateways = << >>
  /\ hubsCreated = 0
  /\ sockets = 0
  /\ idle = 0
  /\ elapsed = 0
  /\ lastResp = NoResp

\* No sub-device exists yet
NoDevice ==
  /\ state = None
  /\ is_available = TRUE
  /\ remove_unavailability_tracker = 0
  /\ device_state_attributes = [voltage |-> NoNum, battery_level |-> NoNum]
  /\ in_use = NoNum
  /\ load_power = NoNum
  /\ power_consumed = NoNum
  /\ tracked = FALSE
  /\ now = 0
  /\ timers = {}
  /\ armedAt = NoNum
  /\ lastReport = 0
  /\ updates = 0
  /\ caller = "idle"
  /\ lastOp = Op("none", NoData, FALSE, FALSE, FALSE, FALSE, FALSE)

\* No radio switch exists yet
NoRadio ==
  /\ radio_state = None
  /\ radio_volume = NoNum
  /\ radioOp = NoRadioOp

\* One sub-device of a running component
InitDevice == DeviceInit /\ DiscoveryIdle /\ pending = NoPush /\ NoRadio
SpecDevice == InitDevice /\ [][DeviceNext]_vars

\* One sub-device with the executor thread of turn_on / turn_off running
\* beside the event loop
InitRace == RaceInit /\ DiscoveryIdle /\ pending = NoPush /\ NoRadio
SpecRace == InitRace /\ [][RaceNext]_vars

\* parse_voltage on every reading of the range
InitVoltage == VoltageInit /\ DiscoveryIdle /\ pending = NoPush /\ NoRadio
SpecVoltage == InitVoltage /\ [][VoltageNext]_vars

\* The radio switch of a gateway of a running component
InitRadio == RadioInit /\ NoDevice /\ pending = NoPush /\ DiscoveryIdle
SpecRadio == InitRadio /\ [][RadioNext]_vars

\* setup from the configuration to the running component
InitSetup == SetupInit /\ NoDevice /\ pending = NoPush /\ NoRadio
SpecSetup == InitSetup /\ [][SetupNext]_vars

\* ========================================================================
\* Properties
\* ========================================================================
AnyPush == \E data \in Payloads : PushData(data)

\* C1: every push handled by a tracked sub-device leaves exactly one armed
\* deadline, at now + 150 minutes, held by the tracker (the deadline armed
\* before is cancelled); the sub-device is available afterwards and the
\* re-arm step reports true exactly when it was unavailable before.
C1_PushRearms ==
  [][AnyPush =>
       /\ timers' = {[id |-> remove_unavailability_tracker', at |-> now + 150]}
       /\ remove_unavailability_tracker' # 0
       /\ is_available'
       /\ lastOp'.was_unavailable = ~is_available]_vars

\* C1 witness: a push that found the sub-device unavailable
C1_Witness ==
  /\ lastOp.op = "push"
  /\ lastOp.was_unavailable
  /\ is_available
  /\ timers = {[id |-> remove_unavailability_tracker, at |-> now + 150]}

\* C2: the availability timeout fires only on an available sub-device whose
\* deadline (150 minutes after the last re-arm) has come, marks it
\* unavailable, requests one state refresh and leaves no deadline armed, so
\* that it cannot fire again before a push re-arms.
C2_TimeoutOnce ==
  [][AsyncSetUnavailable =>
       /\ is_available
       /\ now = armedAt + 150
       /\ ~is_available'
       /\ updates' = updates + 1
       /\ timers' = {}
       /\ remove_unavailability_tracker' = 0]_vars

\* C2 witness: the timeout has fired after a silent period
C2_Witness ==
  /\ lastOp.op = "timeout"
  /\ ~is_available
  /\ timers = {}
  /\ now = armedAt + 150

\* C3 as stated: at every instant from construction on, a last report more
\* than 150 minutes old means unavailable and one less than 150 minutes old
\* means available.
C3_Original ==
  /\ now - lastReport > 150 => ~is_available
  /\ now - lastReport < 150 => is_available

\* C3 amended: for a tracked sub-device the age counts from the last
\* re-arm (start of tracking or last push): more than 150 minutes means
\* unavailable, less than 150 minutes means available; a sub-device that is
\* not tracked yet is available whatever the age of its last report.
C3_TrackedAvailability ==
  /\ tracked /\ now - armedAt > 150 => ~is_available
  /\ tracked /\ now - armedAt < 150 => is_available
  /\ ~tracked => is_available

\* C3 witness: 151 minutes after the last re-arm, unavailable
C3_Witness ==
  /\ tracked
  /\ now - armedAt = 151
  /\ ~is_available

\* C4 as stated: a push whose payload is identical to that of the push
\* handled just before schedules no state refresh.
C4_Original ==
  lastOp.op = "push" /\ lastOp.repeat => ~lastOp.refreshed

\* C5: after parse_voltage on a reading v, the battery level (tenths) is
\* (clamp(v, 2800, 3300) - 2800) / 500 * 100, 0 for v <= 2800 and 100 for
\* v >= 3300, and the voltage attribute (hundredths) is a nearest hundredth
\* of the unclamped v / 1000; the level never decreases from one reading to
\* a higher one.
C5_LevelOf(v) == IF v <= 2800 THEN 0
                 ELSE IF v >= 3300 THEN 1000
                 ELSE ((v - 2800) * 1000) \div 500

C5_State ==
  lastOp.is_voltage =>
    LET v == Reading(lastOp.data)
    IN  /\ device_state_attributes.battery_level = C5_LevelOf(v)
        /\ ((v - 2800) * 1000) % 500 = 0
        /\ 10 * device_state_attributes.voltage - v \in (0 - 5)..5

C5_Step ==
  (lastOp.is_voltage /\ lastOp'.is_voltage
     /\ Reading(lastOp.data) <= Reading(lastOp'.data))
  => device_state_attributes.battery_level
       <= device_state_attributes'.battery_level

C5_BatteryLevel == []C5_State /\ [][C5_Step]_vars

\* C5 witness: a reading above 3300 mV stored as 100 % with its own voltage
C5_Witness ==
  /\ lastOp.op = "parse_voltage"
  /\ Reading(lastOp.data) > 3300
  /\ device_state_attributes.battery_level = 1000
  /\ device_state_attributes.voltage > 330

\* The positions of the static entries
Entries == 1..Len(gateways_config)

\* C6 as stated: once a hub is in the table for an IP, no step replaces it
\* with a newly constructed hub.
C6_Original ==
  [][\A ip \in DOMAIN gateways :
       /\ ip \in DOMAIN gateways'
       /\ gateways'[ip].id = gateways[ip].id]_vars

\* The static entries a response with serial rsid matches: those with that
\* sid, otherwise the sole entry without sid
C7_Matched(rsid) ==
  LET exact == {i \in Entries : gateways_config[i].sid = rsid}
      sidless == {i \in Entries : gateways_config[i].sid = None}
  IN  IF exact # {} THEN exact
      ELSE IF Cardinality(sidless) = 1 THEN sidless
      ELSE {}

\* A response that passed every filter of the round and was not disabled
C7_Accepted ==
  /\ lastResp.outcome \in {"created", "error"}
  /\ lastResp.json
  /\ lastResp.cmd = "iam"
  /\ lastResp.model \in {"gateway", "gateway.v3", "acpartner.v3"}
  /\ lastResp.sid # None
  /\ lastResp.port # NoNum

\* C7 as stated: every accepted 'iam' response gets a hub whose key and
\* token both come from the matched static entry, or are both absent when
\* no entry matches.
C7_Original ==
  C7_Accepted =>
    /\ lastResp.outcome = "created"
    /\ (lastResp.ip \in DOMAIN gateways
          /\ gateways[lastResp.ip].id = lastResp.hub) =>
         LET hub == gateways[lastResp.ip]
             matched == C7_Matched(lastResp.sid)
         IN  IF matched = {}
             THEN hub.key = None /\ hub.miio_token = None
             ELSE \E i \in matched :
                    /\ hub.key = gateways_config[i].key
                    /\ hub.miio_token = gateways_config[i].miio_token

\* C8 as stated: no hub is in the table whose matched static entry (exact
\* sid, or the sole sid-less entry as fallback) is marked disabled.
C8_Original ==
  \A ip \in DOMAIN gateways :
    LET matched == C7_Matched(gateways[ip].sid)
    IN  matched # {} => \E i \in matched : ~gateways_config[i].disable

\* The static entries that declare host and port, are not disabled and
\* resolve
C9_Resolvable(i) ==
  /\ gateways_config[i].host # None
  /\ gateways_config[i].port # NoNum
  /\ ~gateways_config[i].disable
  /\ Resolve(gateways_config[i].host) # "fail"

\* C9 as stated: when the 'whois' datagram is about to be sent, every
\* non-disabled static entry with host and port whose host resolves has a
\* hub at its resolved IP, with or without a sid.
C9_Original ==
  pc = "whois" =>
    \A i \in Entries :
      C9_Resolvable(i) => Resolve(gateways_config[i].host) \in DOMAIN gateways

\* C9 amended: when the 'whois' datagram is about to be sent, every
\* non-disabled static entry that declares host, port and sid and whose
\* host resolves has a hub at its resolved IP, built from a static entry
\* of that IP.
C9_StaticHubs ==
  pc = "whois" =>
    \A i \in Entries :
      (C9_Resolvable(i) /\ gateways_config[i].sid # None) =>
        LET ip == Resolve(gateways_config[i].host)
        IN  /\ ip \in DOMAIN gateways
            /\ \E j \in Entries :
                 /\ C9_Resolvable(j)
                 /\ Resolve(gateways_config[j].host) = ip
                 /\ gateways[ip].ip = ip
                 /\ gateways[ip].sid = gateways_config[j].sid
                 /\ gateways[ip].port = gateways_config[j].port
                 /\ gateways[ip].key = gateways_config[j].key
                 /\ gateways[ip].miio_token = gateways_config[j].miio_token

\* C9 witness: two static hubs are in the table before the first 'whois'
C9_Witness ==
  /\ pc = "whois"
  /\ k = 0
  /\ DOMAIN gateways = {"ip1", "ip2"}
  /\ \A i \in Entries : C9_Resolvable(i) /\ gateways_config[i].sid # None

\* C10 as stated: a round is no longer collecting once 5 seconds have
\* passed since it started collecting.
C10_Original ==
  pc = "recv" => elapsed <= 5

\* C11: setup runs at most discovery_retry discovery rounds (k + 1 of them
\* when round k is the last), starts round k + 1 only when the hub table
\* was still smaller than the static configuration at the end of round k,
\* and leaves the loop only when the table has reached the size of the
\* static configuration or round discovery_retry has ended.
C11_RetryLoop ==
  /\ k < discovery_retry
  /\ (pc = "discover" /\ k > 0) => Size(gateways) < Len(gateways_config)
  /\ pc = "discovered" =>
       \/ Size(gateways) >= Len(gateways_config)
       \/ k + 1 = discovery_retry

\* C11 witness: with two rounds allowed, the loop was left after the first
\* round because one hub answered for the one static entry
C11_Witness ==
  /\ pc = "discovered"
  /\ discovery_retry = 2
  /\ k = 0
  /\ Len(gateways_config) = 1
  /\ Size(gateways) = 1

\* C11 second case: a disabled static entry keeps the table below the
\* size of the configuration, and both allowed rounds have run
C11_AllRounds ==
  /\ pc = "discovered"
  /\ discovery_retry = 2
  /\ k = 1
  /\ Len(gateways_config) = 1
  /\ gateways_config[1].disable
  /\ Size(gateways) = 0

\* C12 as stated: outside a discovery round no discovery socket is open,
\* whichever way the round was left.
C12_Original ==
  pc \notin {"static", "whois", "recv"} => sockets = 0

HasDnsFailure ==
  \E i \in Entries :
    /\ gateways_config[i].host # None
    /\ gateways_config[i].port # NoNum
    /\ gateways_config[i].sid # None
    /\ Resolve(gateways_config[i].host) = "fail"

\* the static entries the loop acts on: host, port and sid declared and the
\* host resolves
StaticOk(i) ==
  /\ gateways_config[i].host # None
  /\ gateways_config[i].port # NoNum
  /\ gateways_config[i].sid # None
  /\ Resolve(gateways_config[i].host) # "fail"

C14_Validation ==
  ~(\/ Len(rawConfig) <= 1
    \/ \A i \in 1..Len(rawConfig) : rawConfig[i].mac # None)
  => /\ pc \in {"config", "invalid"}
     /\ sockets = 0
     /\ hubsCreated = 0
     /\ Size(gateways) = 0

\* C14 witness: two entries without a sid were rejected
C14_Witness ==
  /\ pc = "invalid"
  /\ Len(rawConfig) = 2
  /\ rawConfig[1].mac = None
  /\ rawConfig[2].mac = None

\* C15 as stated: a static configuration in which two entries declare the
\* same sid does not get past validation, so no socket is opened and no
\* hub is made for it.
C15_Original ==
  (\E i, j \in 1..Len(rawConfig) :
     i # j /\ rawConfig[i].mac # None /\ rawConfig[i].mac = rawConfig[j].mac)
  => /\ pc \in {"config", "invalid"}
     /\ sockets = 0
     /\ hubsCreated = 0

\* the datagram of the last receive step names a cmd other than 'iam', or
\* names none, or names a model outside GATEWAY_MODELS
C18_Unrecognized(resp) ==
  /\ resp.json
  /\ \/ resp.cmd # "iam"
     \/ resp.model \notin (GATEWAY_MODELS \cup {None})

\* the datagram a receive step has recorded
C18_Body(resp) ==
  [json |-> resp.json, cmd |-> resp.cmd, model |-> resp.model,
   sid |-> resp.sid, port |-> resp.port]

\* C18: a receive step for a response whose cmd is not 'iam' or whose
\* declared model is not in GATEWAY_MODELS makes no hub and leaves the hub
\* table and the disabled list as they were; when the response names its
\* cmd, the round goes on collecting.
C18_UnrecognizedIgnored ==
  [][(/\ pc = "recv"
      /\ idle' = 0
      /\ C18_Unrecognized(lastResp')
      /\ DiscoverRecv(lastResp'.ip, C18_Body(lastResp')))
     => /\ gateways' = gateways
        /\ disabled_gateways' = disabled_gateways
        /\ hubsCreated' = hubsCreated
        /\ lastResp'.hub = 0
        /\ lastResp'.cmd # None => (pc' = "recv" /\ sockets' = sockets)]_vars

\* C18 witness: a reply of model 'plug' from an address not seen before was
\* rejected and the round is still collecting
C18_Witness ==
  /\ pc = "recv"
  /\ lastResp.outcome = "rejected"
  /\ lastResp.cmd = "iam"
  /\ lastResp.model = "plug"
  /\ lastResp.ip \notin DOMAIN gateways
  /\ ~InSeq(lastResp.ip, disabled_gateways)

\* C19: when write_to_hub returns a true value, turn_on sets the state to
\* True (turn_off to False) and schedules one refresh; when it returns a
\* false value, the state and the scheduled refreshes are as they were.
C19_WriteAcknowledged ==
  [][(\E ack \in BOOLEAN : TurnReturn(ack)) =>
       IF lastOp'.refreshed
       THEN /\ state' = (IF caller = "turn_on" THEN "True" ELSE "False")
            /\ updates' = updates + 1
       ELSE /\ state' = state
            /\ updates' = updates]_vars

\* C19 witness: turn_off was not acknowledged and the switch is still on
C19_Witness ==
  /\ lastOp.op = "turn_off"
  /\ ~lastOp.refreshed
  /\ caller = "idle"
  /\ state = "True"

\* the state the payload's data-key value stands for
C20_Target(data) == IF data.status = "on" THEN "True" ELSE "False"

\* C20: a push reports a change of the switch's data exactly when the
\* payload's data-key value is 'on' or 'off' and stands for a state other
\* than the current one, which then becomes the state; in every other case
\* the state is as it was, whatever happens to in_use, load_power and
\* power_consumed.
C20_ParseData ==
  [][AnyPush =>
       LET data == lastOp'.data
           differs == data.status \in {"on", "off"} /\ state # C20_Target(data)
       IN  /\ lastOp'.is_data = differs
           /\ state' = IF differs THEN C20_Target(data) ELSE state]_vars

\* C20 witness: a push without a data-key value updated in_use, load_power
\* and power_consumed, reported no change and left the switch on
C20_Witness ==
  /\ lastOp.op = "push"
  /\ ~lastOp.is_data
  /\ lastOp.data.status = None
  /\ lastOp.data.inuse = "1"
  /\ in_use = 1
  /\ load_power # 0
  /\ power_consumed # 0
  /\ state = "True"

\* C17: turn_on and turn_off of the radio switch return normally whatever
\* array the hub answers; the state becomes on (turn_on) or off (turn_off)
\* when the answer contains 'ok' and is what it was when it does not, and
\* the volume is never touched.
C17_RadioLogicalFailure ==
  [][\A reply \in RadioReplies :
       /\ RadioTurnOn(reply) =>
            /\ radioOp'.op = "turn_on"
            /\ radio_state' = IF \E i \in 1..Len(reply) : reply[i] = "ok"
                              THEN "True" ELSE radio_state
            /\ radio_volume' = radio_volume
       /\ RadioTurnOff(reply) =>
            /\ radioOp'.op = "turn_off"
            /\ radio_state' = IF \E i \in 1..Len(reply) : reply[i] = "ok"
                              THEN "False" ELSE radio_state
            /\ radio_volume' = radio_volume]_vars

\* C17 witness: the hub answered turn_on without 'ok' while the radio was
\* off, and the switch is still off
C17_Witness ==
  /\ radioOp.op = "turn_on"
  /\ radioOp.resp = <<"error">>
  /\ radio_state = "False"

\* C16: every push whose read and write of the state are separated by
\* acknowledged turn_on / turn_off calls ends as some order of whole steps
\* ends: with the flag and the state of the push handled after those calls,
\* or with the flag of the push handled before them and the state they
\* wrote; turn_on / turn_off never touch the availability, the deadline or
\* a push in progress, and the deadline's callback never runs inside a push
\* and never touches the state.
C16_Serialized ==
  [][ /\ PushEnd =>
          LET wrote == updates > pending.updates
              after == ParseData(state, in_use, load_power, power_consumed,
                                 pending.data)
              before == ParseData(pending.state_read, in_use, load_power,
                                  power_consumed, pending.data)
          IN  \/ /\ lastOp'.is_data = after.result
                 /\ state' = after.state
              \/ /\ wrote
                 /\ lastOp'.is_data = before.result
                 /\ state' = state
      /\ (\E ack \in BOOLEAN : TurnReturn(ack)) =>
           UNCHANGED <<is_available, remove_unavailability_tracker, timers,
                       pending, in_use, load_power, power_consumed,
                       device_state_attributes>>
      /\ (\E t \in timers : t.at <= now /\ timers' = timers \ {t}) =>
           /\ ~pending.active
           /\ state' = state]_vars

\* C16 witness: turn_on was acknowledged between the read and the write of
\* a push of 'off', and the push has ended with the switch off
C16_Witness ==
  /\ ~pending.active
  /\ pending.raced
  /\ lastOp.op = "push"
  /\ lastOp.data.status = "off"
  /\ lastOp.is_data
  /\ state = "False"

\* C21: on a tracked sub-device at most one unavailability deadline is
\* armed, one is armed exactly when the sub-device is marked available, the
\* armed one is the one the tracker handle removes, and so the deadline
\* that fires is never one that a push has cancelled; before tracking
\* starts none is armed.
C21_OneDeadline ==
  /\ tracked =>
       /\ Cardinality(timers) <= 1
       /\ is_available <=> timers # {}
       /\ \A t \in timers : t.id = remove_unavailability_tracker
       /\ timers = {} => remove_unavailability_tracker = 0
  /\ ~tracked => timers = {}

\* C21 witness: a push on a sub-device that had timed out re-armed the one
\* deadline and made it available again
C21_Witness ==
  /\ tracked
  /\ lastOp.op = "push"
  /\ lastOp.was_unavailable
  /\ is_available
  /\ Cardinality(timers) = 1
  /\ \E t \in timers : t.at = now + TIME_TILL_UNAVAILABLE

\* C22: listen() is called at most once, from the end of the retry loop
\* and with a hub in the table, and no discovery round runs after it; while
\* the table is empty nothing has been started, loaded or registered, and
\* setup that finds it empty ends there; platforms, services and the
\* shutdown listener come only after listen(); stop_listen() is called at
\* most once, by the shutdown listener of a running component, after
\* listen().
C22_SetupOrder ==
  /\ [](/\ hass.listen <= 1
        /\ hass.stop_listen <= 1
        /\ hass.listen = 1 =>
             /\ pc \in {"listening", "running", "stopped"}
             /\ Size(gateways) > 0
             /\ sockets = 0
        /\ (Size(gateways) = 0 \/ pc = "no_gateway") => hass = NoHass
        /\ (hass.platforms # {} \/ hass.services # {} \/ hass.stop_listener
              \/ hass.stop_listen > 0) => hass.listen = 1
        /\ hass.stop_listen = 1 => (pc = "stopped" /\ ~hass.stop_listener))
  /\ [][/\ hass'.listen # hass.listen =>
             (pc = "discovered" /\ Size(gateways) > 0)
        /\ hass'.stop_listen # hass.stop_listen =>
             (pc = "running" /\ hass.stop_listener /\ hass.listen = 1)
        /\ pc = "no_gateway" => pc' = "no_gateway"
        /\ pc \in {"static", "whois", "recv", "round_end"} =>
             hass' = NoHass]_vars

\* C22 witness: the component was set up with one hub, its listener was
\* started, and the shutdown event has stopped it
C22_Witness ==
  /\ pc = "stopped"
  /\ Size(gateways) = 1
  /\ hass.listen = 1
  /\ hass.stop_listen = 1
  /\ hass.platforms = PLATFORMS
  /\ hass.services = SERVICES

\* C22 second case: both rounds found no hub and setup has ended with
\* nothing started
C22_NoGateway ==
  /\ pc = "no_gateway"
  /\ discovery_retry = 2
  /\ k = 1
  /\ hass = NoHass

====
